---- MODULE Spec2Model ----
(***************************************************************************)
(* Model of news_fetcher.py: the staleness filter filter_stale_articles    *)
(* and the NewsFetcher class (fetch_recent_news, get_all_headlines,        *)
(* get_articles_by_ids, _parse_date).                                      *)
(*                                                                         *)
(* Time is counted in whole hours.  A datetime is an integer number of     *)
(* hours; a feedparser time tuple is a sequence <<day, hour, ...>> and     *)
(* the datetime constructor call of _parse_date is modelled by            *)
(* datetime(t), which reads the leading                                   *)
(* fields and fails on a short tuple or an out-of-range field.             *)
(* Text is a sequence of one-character strings.                            *)
(* An optional attribute / dict key is a sequence of length 0 (absent) or  *)
(* 1 (present); article dicts are records whose DOMAIN is their key set.   *)
(***************************************************************************)
EXTENDS Integers, Sequences, FiniteSets, TLC

VARIABLES
    STRICT_24H_FILTER,   \* module-level switch (line 17), fixed per run
    feedsArg,            \* the `feeds` argument given to NewsFetcher(...)
    feeds,               \* self.feeds
    articles_cache,      \* self._articles_cache : id -> article
    web,                 \* what feedparser.parse(url) yields for every url
    clock,               \* wall clock read by datetime.now(), in hours
    latest,              \* history: the full records of the most recent fetch
    prevLen,             \* history: longest fetch result before the latest fetch
    budget,              \* number of fetches the run may still make
    out                  \* record of the last call: arguments, result, trace

vars == <<STRICT_24H_FILTER, feedsArg, feeds, articles_cache, web, clock,
          latest, prevLen, budget, out>>

-----------------------------------------------------------------------------
(* Bounds of the model *)

T0 == 100            \* clock value at construction (day 4, 04:00)
MaxCalls == 2        \* fetches made on one NewsFetcher
MaxEntries == 2      \* total number of entries over all feeds
MaxIds == 2          \* longest id list passed to get_articles_by_ids
MaxId == 2           \* ids passed to get_articles_by_ids range over 0..MaxId
MaxArticles == 2     \* longest list passed to filter_stale_articles directly

Urls == {"a", "b"}
HoursArgs == {8, 48}
LimitArgs == {-1, 0, 1, 50}
MaxAgeArgs == {0, 24, 48}
Delays == {0, 25}         \* hours a single source retrieval may take

-----------------------------------------------------------------------------
(* Text and the stale-year patterns *)

\* the characters of the model's alphabet that the regex class \w contains
WordChars == {"a", "b", "e", "i", "k", "l", "o", "t", "x", "N",
              "0", "2", "3", "4", "5", "_"}

Blank == <<>>

\* line 18: the digits between the two \b of each pattern, in list order
STALE_YEAR_PATTERNS ==
    << <<"2", "0", "2", "4">>, <<"2", "0", "2", "3">>, <<"2", "0", "2", "2">> >>

\* re.search(r'\bDDDD\b', text): the digits occur at i with a word boundary
\* on both sides (start/end of text or a non-word character next to them)
re_search(pattern, text) ==
    \E i \in 1..(Len(text) - Len(pattern) + 1) :
        /\ SubSeq(text, i, i + Len(pattern) - 1) = pattern
        /\ (i = 1 \/ text[i - 1] \notin WordChars)
        /\ (i + Len(pattern) - 1 = Len(text) \/ text[i + Len(pattern)] \notin WordChars)

\* dict.get(key, default) on an article record
Get(article, key, default) ==
    IF key \in DOMAIN article THEN article[key] ELSE default

\* f"{title} {summary}" (line 48)
text_to_check(article) ==
    Get(article, "title", Blank) \o <<" ">> \o Get(article, "summary", Blank)

\* lines 58-64: the loop over the patterns, stopping at the first match
stale_year_found(article) ==
    \E p \in 1..Len(STALE_YEAR_PATTERNS) :
        re_search(STALE_YEAR_PATTERNS[p], text_to_check(article))

\* too_old with the comparison turned around
too_old_reversed(article, cutoff) ==
    "published" \in DOMAIN article /\ article.published > cutoff

\* line 51: published and published < cutoff
too_old(article, cutoff) ==
    "published" \in DOMAIN article /\ article.published < cutoff

\* RejectionsOf counting both checks of an article that fails both
RejectionsOf_both(article, cutoff) ==
    (IF too_old(article, cutoff) THEN 1 ELSE 0)
    + (IF stale_year_found(article) THEN 1 ELSE 0)

\* lines 44-70, one iteration: what the article adds to rejected_count
RejectionsOf(article, cutoff) ==
    IF too_old(article, cutoff) THEN 1
    ELSE IF stale_year_found(article) THEN 1
    ELSE 0

RECURSIVE FilterLoop(_, _, _, _, _)
FilterLoop(articles, i, cutoff, fresh_articles, rejected_count) ==
    IF i > Len(articles)
    THEN [fresh |-> fresh_articles, rejected |-> rejected_count, cutoff |-> cutoff]
    ELSE LET r == RejectionsOf(articles[i], cutoff) IN
         FilterLoop(articles, i + 1, cutoff,
                    IF r = 0 THEN Append(fresh_articles, articles[i]) ELSE fresh_articles,
                    rejected_count + r)

\* lines 21-77; `now` is the value datetime.now() returns at line 39.
\* The result carries the returned list and the two logged quantities.
filter_stale_articles(strict, articles, max_age_hours, now) ==
    IF ~strict
    THEN [fresh |-> articles, rejected |-> 0, cutoff |-> now - max_age_hours]
    ELSE FilterLoop(articles, 1, now - max_age_hours, <<>>, 0)

-----------------------------------------------------------------------------
(* Entries, feeds and date parsing *)

\* the datetime constructor of lines 180/186 succeeds: enough fields, each in range
datetime_ok(t) == Len(t) >= 2 /\ t[1] >= 1 /\ t[2] \in 0..23

datetime(t) == t[1] * 24 + t[2]

\* hasattr(entry, f) and entry.f : the attribute exists and is truthy
HasTruthy(entry, f) == Len(entry[f]) = 1 /\ Len(entry[f][1]) > 0

\* _parse_date without the fallback to the updated timestamp
_parse_date_no_updated(entry, now) ==
    IF HasTruthy(entry, "published_parsed") /\ datetime_ok(entry.published_parsed[1])
    THEN datetime(entry.published_parsed[1])
    ELSE now

\* lines 175-191; `now` is the value datetime.now() returns at line 191
_parse_date(entry, now) ==
    IF HasTruthy(entry, "published_parsed") /\ datetime_ok(entry.published_parsed[1])
    THEN datetime(entry.published_parsed[1])
    ELSE IF HasTruthy(entry, "updated_parsed") /\ datetime_ok(entry.updated_parsed[1])
    THEN datetime(entry.updated_parsed[1])
    ELSE now

SUMMARY_LIMIT == 500

Min(m, n) == IF m < n THEN m ELSE n
Max(m, n) == IF m > n THEN m ELSE n

\* Slice keeping one element more
Slice_one_more(seq, n) ==
    IF n >= 0 THEN SubSeq(seq, 1, Min(n + 1, Len(seq)))
    ELSE SubSeq(seq, 1, Max(Len(seq) + n + 1, 0))

\* Python's seq[:n], for every integer n (a negative n counts from the end)
Slice(seq, n) ==
    IF n >= 0 THEN SubSeq(seq, 1, Min(n, Len(seq)))
    ELSE SubSeq(seq, 1, Max(Len(seq) + n, 0))

\* entry.get(key, default) on a feedparser entry
EntryGet(entry, key, default) ==
    IF Len(entry[key]) = 1 THEN entry[key][1] ELSE default

\* lines 111-117
MakeArticle(entry, source, published) ==
    [title     |-> EntryGet(entry, "title", <<"N", "o", " ", "t", "i", "t", "l", "e">>),
     link      |-> EntryGet(entry, "link", Blank),
     source    |-> source,
     published |-> published,
     summary   |-> Slice(EntryGet(entry, "summary", Blank), SUMMARY_LIMIT)]

\* the feed url as display text
UrlText(url) == <<url>>

\* How many entries of a response are processed before the source raises:
\* all of them when it does not raise (raises = <<>>), the first k when the
\* exception comes after k entries (k = 0: feedparser.parse itself raised).
Processed(resp) ==
    IF resp.raises = <<>> THEN Len(resp.entries) ELSE Min(resp.raises[1], Len(resp.entries))

\* lines 105-118: the entries of one feed that are appended to all_articles
\* before the loop ends or the exception of lines 120-122 is caught
RECURSIVE EntryLoop(_, _, _, _, _, _)
EntryLoop(url, resp, i, cutoff_time, now, acc) ==
    IF i > Processed(resp) THEN acc
    ELSE LET published == _parse_date(resp.entries[i], now) IN
         EntryLoop(url, resp, i + 1, cutoff_time, now,
                   IF published > cutoff_time
                   THEN Append(acc, MakeArticle(resp.entries[i],
                                                EntryGet(resp, "title", UrlText(url)),
                                                published))
                   ELSE acc)

\* lines 100-122: the loop over self.feeds.  Retrieving feeds[i] takes
\* delay[feeds[i]] hours; its entries are processed at the clock value
\* reached then.  stamps[i] records that clock value.
RECURSIVE FeedLoop(_, _, _, _, _, _, _, _)
FeedLoop(fs, i, w, delay, cutoff_time, now, all_articles, stamps) ==
    IF i > Len(fs)
    THEN [all_articles |-> all_articles, now |-> now, stamps |-> stamps]
    ELSE LET t == now + delay[fs[i]] IN
         FeedLoop(fs, i + 1, w, delay, cutoff_time, t,
                  EntryLoop(fs[i], w[fs[i]], 1, cutoff_time, t, all_articles),
                  Append(stamps, t))

\* Insert with a strict comparison: x overtakes the elements of its own age
RECURSIVE Insert_unstable(_, _)
Insert_unstable(sorted, x) ==
    IF sorted = <<>> THEN <<x>>
    ELSE IF Head(sorted).published > x.published
         THEN <<Head(sorted)>> \o Insert_unstable(Tail(sorted), x)
         ELSE <<x>> \o sorted

\* list.sort(key=published, reverse=True) (line 125): a stable sort, newest
\* first; Insert puts x behind every element that is not older than x
RECURSIVE Insert(_, _)
Insert(sorted, x) ==
    IF sorted = <<>> THEN <<x>>
    ELSE IF Head(sorted).published >= x.published
         THEN <<Head(sorted)>> \o Insert(Tail(sorted), x)
         ELSE <<x>> \o sorted

RECURSIVE SortNewestFirst(_)
SortNewestFirst(seq) ==
    IF seq = <<>> THEN <<>>
    ELSE Insert(SortNewestFirst(SubSeq(seq, 1, Len(seq) - 1)), seq[Len(seq)])

\* lines 136-137: article["id"] = i
AssignIds(articles) ==
    [i \in 1..Len(articles) |-> ("id" :> (i - 1)) @@ articles[i]]

\* FillCache without the reset of line 98: old entries survive
FillCache_merge(old_cache, articles) ==
    [id \in (DOMAIN old_cache) \cup (0..(Len(articles) - 1)) |->
        IF id < Len(articles) THEN articles[id + 1] ELSE old_cache[id]]

\* lines 136-138: the cache filled from the empty dict of line 98
FillCache(old_cache, articles) ==
    [id \in 0..(Len(articles) - 1) |-> articles[id + 1]]

\* lines 85-141.  t0 is the clock at line 96; the clock at line 39 of the
\* filter is the one reached when the last source has been processed.
fetch_recent_news(strict, fs, w, old_cache, t0, delay, hours, limit) ==
    LET cutoff_time == t0 - hours
        loop   == FeedLoop(fs, 1, w, delay, cutoff_time, t0, <<>>, <<>>)
        sorted == SortNewestFirst(loop.all_articles)
        flt    == filter_stale_articles(strict, sorted, 24, loop.now)
        ret    == AssignIds(Slice(flt.fresh, limit))
    IN  [ret |-> ret, cache |-> FillCache(old_cache, ret),
         agg |-> loop.all_articles, fresh |-> flt.fresh,
         stamps |-> loop.stamps, now |-> loop.now]

\* Headline exposing the link as well
Headline_with_link(a) ==
    [id |-> a.id, title |-> a.title, source |-> a.source, link |-> a.link]

\* lines 151-154
Headline(a) == [id |-> a.id, title |-> a.title, source |-> a.source]

\* lines 143-155, given the list fetch_recent_news returned
get_all_headlines(articles) ==
    [i \in 1..Len(articles) |-> Headline(articles[i])]

\* get_articles_by_ids answering a repeated id once
RECURSIVE get_articles_by_ids_unique(_, _)
get_articles_by_ids_unique(cache, ids) ==
    IF ids = <<>> THEN <<>>
    ELSE (IF Head(ids) \in DOMAIN cache
             /\ \A i \in 1..Len(Tail(ids)) : Tail(ids)[i] # Head(ids)
          THEN <<cache[Head(ids)]>> ELSE <<>>)
         \o get_articles_by_ids_unique(cache, Tail(ids))

\* lines 157-173
RECURSIVE get_articles_by_ids(_, _)
get_articles_by_ids(cache, ids) ==
    IF ids = <<>> THEN <<>>
    ELSE (IF Head(ids) \in DOMAIN cache THEN <<cache[Head(ids)]>> ELSE <<>>)
         \o get_articles_by_ids(cache, Tail(ids))

-----------------------------------------------------------------------------
(* The environment: entries the feeds may carry *)

Text_ok       == <<"o", "k">>
Text_in2023   == <<"i", "n", " ", "2", "0", "2", "3">>
Text_x2024    == <<"x", "2", "0", "2", "4">>
\* 501 characters: 496 blanks, then 20245; cut to 500 it ends in the word 2024
Text_long     == [i \in 1..501 |->
                    IF i <= 496 THEN " "
                    ELSE <<"2", "0", "2", "4", "5">>[i - 496]]

Entry(title, summary, published_parsed, updated_parsed) ==
    [title |-> title, link |-> <<>>, summary |-> summary,
     published_parsed |-> published_parsed, updated_parsed |-> updated_parsed]

\* <<day, hour, minute>>: day 4 03:00 is hour 99, day 3 03:00 is hour 75
EntryPool ==
    { Entry(<<Text_ok>>,    <<>>,            << <<4, 3, 0>> >>,  <<>>),
      Entry(<<Text_x2024>>, <<Blank>>,       << <<>> >>,         << <<4, 3, 0>> >>),
      Entry(<<Text_ok>>,    <<Text_ok>>,     << <<4, 30, 0>> >>, << <<3, 3, 0>> >>),
      Entry(<<>>,           <<Text_in2023>>, <<>>,               <<>>),
      Entry(<<Text_ok>>,    <<>>,            << <<4>> >>,        << <<0, 0, 0>> >>),
      Entry(<<Text_ok>>,    <<Text_long>>,   << <<4, 2, 0>> >>,  <<>>),
      Entry(<<Text_ok>>,    <<>>,            << <<3, 4, 0>> >>,  << <<4, 3, 0>> >>) }

SeqsUpTo(S, n) == UNION {[1..k -> S] : k \in 0..n}

FeedTitle(url) == IF url = "a" THEN << <<"N", "a">> >> ELSE <<>>

\* what feedparser.parse(url) can yield: a feed (title, entries) and, when
\* raises = <<k>>, an exception surfacing after k of the entries
Response(url, es, r) ==
    [title |-> FeedTitle(url), entries |-> es, raises |-> r]

RaiseOpts(n) == {<<>>} \cup {<<k>> : k \in 0..n}

\* every placement of at most MaxEntries entries of the pool on the two
\* feeds, with at most one of the two sources raising (none if ~mayRaise)
WebsOver(pool, mayRaise) ==
    { [a |-> Response("a", SubSeq(x[1], 1, x[2]), x[3]),
       b |-> Response("b", SubSeq(x[1], x[2] + 1, Len(x[1])), x[4])] :
        x \in { y \in SeqsUpTo(pool, MaxEntries) \X (0..MaxEntries)
                      \X RaiseOpts(MaxEntries) \X RaiseOpts(MaxEntries) :
                  /\ y[2] <= Len(y[1])
                  /\ y[3] = <<>> \/ y[4] = <<>>
                  /\ y[3] = <<>> \/ (mayRaise /\ y[3][1] <= y[2])
                  /\ y[4] = <<>> \/ (mayRaise /\ y[4][1] <= Len(y[1]) - y[2]) } }

Webs == WebsOver(EntryPool, TRUE)

\* the feeds of the runs that make several calls: a dated fresh entry and
\* an undated one, no source raising
SampleWebs == WebsOver({ e \in EntryPool :
                           /\ e.title = <<Text_ok>>
                           /\ e.summary = <<>>
                           /\ e.updated_parsed \in {<<>>, << <<0, 0, 0>> >>} }, FALSE)

\* config.RSS_FEEDS (line 9)
RSS_FEEDS == <<"a", "b">>

\* the feeds argument: <<>> is None / not given, <<list>> is a given list
FeedsArgs == { <<>>, << <<>> >>, << <<"b", "a">> >> }

\* line 82: feeds or RSS_FEEDS
ChooseFeeds(arg) ==
    IF arg = <<>> \/ arg[1] = <<>> THEN RSS_FEEDS ELSE arg[1]

\* dicts passed to filter_stale_articles directly: articles as the fetch
\* builds them, and dicts without a published or a title key
ArticlePool ==
    { MakeArticle(e, UrlText("a"), _parse_date(e, T0)) : e \in EntryPool }
    \cup { [title |-> Text_in2023, summary |-> Blank],
           [summary |-> Text_ok] }

-----------------------------------------------------------------------------
(* The state machine *)

\* lines 81-83, for a web and a number of fetches
Construct(webs, calls) ==
    /\ STRICT_24H_FILTER \in BOOLEAN
    /\ feedsArg \in FeedsArgs
    /\ feeds = ChooseFeeds(feedsArg)
    /\ articles_cache = <<>>
    /\ web \in webs
    /\ clock = T0
    /\ latest = <<>>
    /\ prevLen = 0
    /\ budget = calls
    /\ out = [op |-> "init"]

Init == Construct(SampleWebs, MaxCalls)

\* the hours each source takes in one fetch; sources not in self.feeds take none
DelaysOf(fs) ==
    { d \in [Urls -> Delays] : \A u \in Urls : (\A i \in 1..Len(fs) : fs[i] # u) => d[u] = 0 }

\* the effect of fetch_recent_news(hours, limit) on the object and the clock
DoFetch(op, hours, limit, delay, r, ret) ==
    /\ budget' = budget - 1
    /\ articles_cache' = r.cache
    /\ clock' = r.now
    /\ latest' = r.ret
    /\ prevLen' = Max(prevLen, Len(latest))
    /\ out' = [op |-> op, hours |-> hours, limit |-> limit, t0 |-> clock,
               delay |-> delay, stamps |-> r.stamps, now |-> r.now,
               agg |-> r.agg, fresh |-> r.fresh, ret |-> ret]
    /\ UNCHANGED <<STRICT_24H_FILTER, feedsArg, feeds, web>>

\* fetch_recent_news(hours, limit), lines 85-141
FetchRecentNews ==
    /\ budget > 0
    /\ \E hours \in HoursArgs, limit \in LimitArgs, delay \in DelaysOf(feeds) :
        \E r \in {fetch_recent_news(STRICT_24H_FILTER, feeds, web, articles_cache,
                                    clock, delay, hours, limit)} :
            DoFetch("fetch", hours, limit, delay, r, r.ret)

\* get_all_headlines(hours, limit), lines 143-155
GetAllHeadlines ==
    /\ budget > 0
    /\ \E hours \in HoursArgs, limit \in LimitArgs, delay \in DelaysOf(feeds) :
        \E r \in {fetch_recent_news(STRICT_24H_FILTER, feeds, web, articles_cache,
                                    clock, delay, hours, limit)} :
            DoFetch("headlines", hours, limit, delay, r, get_all_headlines(r.ret))

\* get_articles_by_ids(ids), lines 157-173
GetArticlesByIds ==
    \E ids \in SeqsUpTo(0..MaxId, MaxIds) :
        /\ out' = [op |-> "by_ids", ids |-> ids,
                   ret |-> get_articles_by_ids(articles_cache, ids)]
        /\ UNCHANGED <<STRICT_24H_FILTER, feedsArg, feeds, articles_cache, web,
                       clock, latest, prevLen, budget>>

Next == FetchRecentNews \/ GetAllHeadlines \/ GetArticlesByIds

Spec == Init /\ [][Next]_vars

\* one call of fetch_recent_news or get_all_headlines on a fresh NewsFetcher,
\* for every web
InitCall == Construct(Webs, 1)

NextCall == FetchRecentNews \/ GetAllHeadlines

SpecCall == InitCall /\ [][NextCall]_vars

\* filter_stale_articles called on its own: Init draws the arguments,
\* FilterStale applies the function
InitFilter ==
    /\ STRICT_24H_FILTER \in BOOLEAN
    /\ feedsArg = <<>>
    /\ feeds = RSS_FEEDS
    /\ articles_cache = <<>>
    /\ web \in WebsOver({}, FALSE)
    /\ clock = T0
    /\ latest = <<>>
    /\ prevLen = 0
    /\ budget = 0
    /\ \E articles \in SeqsUpTo(ArticlePool, MaxArticles), max_age_hours \in MaxAgeArgs :
           out = [op |-> "filter_args", articles |-> articles,
                  max_age_hours |-> max_age_hours]

FilterStale ==
    /\ out.op = "filter_args"
    /\ \E r \in {filter_stale_articles(STRICT_24H_FILTER, out.articles,
                                       out.max_age_hours, clock)} :
           out' = [op |-> "filter", articles |-> out.articles,
                   max_age_hours |-> out.max_age_hours, now |-> clock,
                   ret |-> r.fresh, rejected |-> r.rejected]
    /\ UNCHANGED <<STRICT_24H_FILTER, feedsArg, feeds, articles_cache, web,
                   clock, latest, prevLen, budget>>

NextFilter == FilterStale

SpecFilter == InitFilter /\ [][NextFilter]_vars

-----------------------------------------------------------------------------
(* Vocabulary of the properties, stated without the operators of the model *)

Range(seq) == {seq[i] : i \in 1..Len(seq)}

\* the article without its id key
StripId(a) == [k \in (DOMAIN a) \ {"id"} |-> a[k]]

StripIds(seq) == [i \in 1..Len(seq) |-> StripId(seq[i])]

StaleYears == { <<"2", "0", "2", "2">>, <<"2", "0", "2", "3">>, <<"2", "0", "2", "4">> }

\* a stale year stands in the text as a whole word: text[i..j] is the year and
\* no word character touches it on either side
MentionsStaleYear(text) ==
    \E i \in 1..Len(text), j \in 1..Len(text) :
        /\ i <= j
        /\ SubSeq(text, i, j) \in StaleYears
        /\ (i > 1 => text[i - 1] \notin WordChars)
        /\ (j < Len(text) => text[j + 1] \notin WordChars)

\* title, a blank, summary (a missing key reads as the empty text)
TitleAndSummary(a) ==
    (IF "title" \in DOMAIN a THEN a.title ELSE <<>>) \o <<" ">>
    \o (IF "summary" \in DOMAIN a THEN a.summary ELSE <<>>)

Fetched == out.op \in {"fetch", "headlines"}

\* s is t with some elements left out
RECURSIVE IsSubseq(_, _)
IsSubseq(s, t) ==
    IF s = <<>> THEN TRUE
    ELSE IF t = <<>> THEN FALSE
    ELSE IF Head(s) = Head(t) THEN IsSubseq(Tail(s), Tail(t))
    ELSE IsSubseq(s, Tail(t))

PublishedAt(seq, t) == SelectSeq(seq, LAMBDA a : a.published = t)

-----------------------------------------------------------------------------
(* C1 *)

\* C1: with STRICT_24H_FILTER enabled, whatever the sources, the entries and
\* the hours argument, no article returned by fetch_recent_news and none in
\* the cache was published earlier than 24 hours before the clock value the
\* staleness filter read, and none mentions a stale year (2022, 2023, 2024)
\* in its title-plus-summary text.
C1_NoStaleArticle ==
    (STRICT_24H_FILTER /\ Fetched) =>
        /\ \A a \in Range(latest) :
              a.published >= out.now - 24 /\ ~MentionsStaleYear(TitleAndSummary(a))
        /\ \A id \in DOMAIN articles_cache :
              /\ articles_cache[id].published >= out.now - 24
              /\ ~MentionsStaleYear(TitleAndSummary(articles_cache[id]))
        /\ out.op = "fetch" => out.ret = latest

\* a fetch with hours = 48 let an article older than 24 hours through the
\* recency window, and the result is not empty
C1_Witness ==
    /\ STRICT_24H_FILTER /\ out.op = "fetch" /\ out.hours = 48
    /\ \E a \in Range(out.agg) : a.published < out.now - 24
    /\ Len(out.ret) > 0

-----------------------------------------------------------------------------
(* C2 *)

\* C2: the article at position i of the list fetch_recent_news returns has
\* id i (counting from 0), the published timestamps never increase along the
\* list, and articles of equal timestamp stand in the order in which they
\* were aggregated from the sources.
C2_IdsAndOrder ==
    out.op = "fetch" =>
        /\ \A i \in 1..Len(out.ret) : out.ret[i].id = i - 1
        /\ \A i \in 1..Len(out.ret), j \in 1..Len(out.ret) :
              i < j => out.ret[i].published >= out.ret[j].published
        /\ \A a \in Range(out.ret) :
              IsSubseq(PublishedAt(StripIds(out.ret), a.published),
                       PublishedAt(out.agg, a.published))

\* two different articles of equal timestamp are returned
C2_Witness ==
    /\ out.op = "fetch" /\ Len(out.ret) = 2
    /\ out.ret[1].published = out.ret[2].published
    /\ out.ret[1].title # out.ret[2].title

-----------------------------------------------------------------------------
(* C3 *)

\* C3: after any sequence of calls the cache holds exactly the records of the
\* most recent fetch, keyed by their ids; get_articles_by_ids([x]) returns the
\* record with id x of the latest fetch result when x is one of its ids and
\* the empty list otherwise, also for an x that was an id of an earlier,
\* larger fetch result.
C3_CacheIsLatestFetch ==
    /\ DOMAIN articles_cache = 0..(Len(latest) - 1)
    /\ \A i \in 1..Len(latest) :
          latest[i].id = i - 1 /\ articles_cache[i - 1] = latest[i]
    /\ (out.op = "by_ids" /\ Len(out.ids) = 1) =>
          IF out.ids[1] \in 0..(Len(latest) - 1)
          THEN out.ret = <<latest[out.ids[1] + 1]>>
          ELSE out.ret = <<>>

\* an id of an earlier, larger fetch result is asked for after a smaller,
\* non-empty fetch and is not found
C3_Witness ==
    /\ out.op = "by_ids" /\ Len(out.ids) = 1
    /\ Len(latest) >= 1
    /\ out.ids[1] >= Len(latest) /\ out.ids[1] < prevLen
    /\ out.ret = <<>>

-----------------------------------------------------------------------------
(* C6 *)

\* the cached records of the ids that are in the cache, in the order of ids
ExpectedByIds(cache, ids) ==
    LET hits == SelectSeq(ids, LAMBDA x : x \in DOMAIN cache)
    IN  [k \in 1..Len(hits) |-> cache[hits[k]]]

\* C6: for every id list (repeats, unknown ids, empty) get_articles_by_ids
\* returns the cached records of the ids present in the cache, in input order
\* with the misses removed and a repeated id answered once per occurrence,
\* and it leaves the cache unchanged.
C6_ByIds ==
    [][out'.op = "by_ids" =>
          /\ articles_cache' = articles_cache
          /\ out'.ret = ExpectedByIds(articles_cache, out'.ids)]_vars

\* an id that is in the cache is asked for twice and answered twice
C6_Witness ==
    /\ out.op = "by_ids" /\ Len(out.ids) = 2
    /\ out.ids[1] = out.ids[2]
    /\ out.ids[1] \in DOMAIN articles_cache
    /\ Len(out.ret) = 2

-----------------------------------------------------------------------------
(* C7 *)

-----------------------------------------------------------------------------
(* C8 *)

\* C8: for the same source contents, clock and arguments (h, n),
\* get_all_headlines(h, n) returns a list of the length and order of
\* fetch_recent_news(h, n) whose i-th element is the {id, title, source}
\* projection of the i-th full record and nothing else, and the cache then
\* holds the full records of those ids.
C8_HeadlinesProjectFetch ==
    out.op = "headlines" =>
        LET full == fetch_recent_news(STRICT_24H_FILTER, feeds, web, <<>>, out.t0,
                                      out.delay, out.hours, out.limit).ret
        IN  /\ Len(out.ret) = Len(full)
            /\ \A i \in 1..Len(full) :
                  /\ DOMAIN out.ret[i] = {"id", "title", "source"}
                  /\ out.ret[i].id = full[i].id
                  /\ out.ret[i].title = full[i].title
                  /\ out.ret[i].source = full[i].source
                  /\ articles_cache[out.ret[i].id] = full[i]
            /\ DOMAIN articles_cache = {full[i].id : i \in 1..Len(full)}

\* get_all_headlines returned two headlines from two different sources
C8_Witness ==
    /\ out.op = "headlines" /\ Len(out.ret) = 2
    /\ out.ret[1].source # out.ret[2].source

-----------------------------------------------------------------------------
(* C9 *)

\* the article passes both checks of the filter
PassesFilter(a, now, max_age_hours) ==
    /\ ~("published" \in DOMAIN a /\ a.published < now - max_age_hours)
    /\ ~MentionsStaleYear(TitleAndSummary(a))

\* C9: with the switch enabled filter_stale_articles returns, in input order,
\* exactly the articles that neither have published < now - max_age_hours nor
\* mention a stale year; every rejected article is counted once, so accepted
\* plus rejected equals the input length.  With the switch disabled it
\* returns the input unchanged.
C9_FilterStale ==
    out.op = "filter" =>
        IF STRICT_24H_FILTER
        THEN /\ out.ret = SelectSeq(out.articles,
                              LAMBDA a : PassesFilter(a, out.now, out.max_age_hours))
             /\ Len(out.ret) + out.rejected = Len(out.articles)
        ELSE out.ret = out.articles

\* one of two articles is both too old and mentions a stale year; it is
\* rejected and the other one accepted
C9_Witness ==
    /\ STRICT_24H_FILTER /\ out.op = "filter"
    /\ Len(out.articles) = 2 /\ Len(out.ret) = 1 /\ out.rejected = 1
    /\ \E a \in Range(out.articles) :
          /\ "published" \in DOMAIN a
          /\ a.published < out.now - out.max_age_hours
          /\ MentionsStaleYear(TitleAndSummary(a))

-----------------------------------------------------------------------------
(* C10 *)

\* the time tuple is there, is truthy and converts
Parses(field) == Len(field) = 1 /\ Len(field[1]) > 0 /\ datetime_ok(field[1])

\* published, else updated, else the current time
ChainTime(e, now) ==
    IF Parses(e.published_parsed) THEN datetime(e.published_parsed[1])
    ELSE IF Parses(e.updated_parsed) THEN datetime(e.updated_parsed[1])
    ELSE now

Undated(e) == ~Parses(e.published_parsed) /\ ~Parses(e.updated_parsed)

\* the entries the last fetch processed: <<p, i>> is entry i of feeds[p]
ProcessedEntries ==
    { x \in (1..Len(feeds)) \X (1..MaxEntries + 1) :
        /\ x[2] <= Len(web[feeds[x[1]]].entries)
        /\ web[feeds[x[1]]].raises # <<>> => x[2] <= web[feeds[x[1]]].raises[1] }

EntryAt(x) == web[feeds[x[1]]].entries[x[2]]

\* the article of a processed entry, stamped by the chain at the clock value
\* at which its source was processed
ArticleAt(x) ==
    MakeArticle(EntryAt(x),
                IF web[feeds[x[1]]].title = <<>> THEN <<feeds[x[1]]>>
                ELSE web[feeds[x[1]]].title[1],
                ChainTime(EntryAt(x), out.stamps[x[1]]))

\* the timestamps follow the chain: every aggregated article is the article
\* of a processed entry, and every processed entry inside the recency window
\* is aggregated
FollowsChain ==
    /\ \A a \in Range(out.agg) : \E x \in ProcessedEntries : a = ArticleAt(x)
    /\ \A x \in ProcessedEntries :
          ChainTime(EntryAt(x), out.stamps[x[1]]) > out.t0 - out.hours
              => ArticleAt(x) \in Range(out.agg)

StaleText(a) == STRICT_24H_FILTER /\ MentionsStaleYear(TitleAndSummary(a))

\* C10 as stated: timestamps follow the chain published, updated, current
\* time; so a processed entry with no parseable timestamp is never dropped by
\* the recency window (hours > 0) nor by the 24-hour age check, and is
\* returned unless its text mentions a stale year or the limit cuts it off.
C10_Original ==
    out.op = "fetch" =>
        /\ FollowsChain
        /\ \A x \in ProcessedEntries :
              (Undated(EntryAt(x)) /\ out.hours > 0) =>
                  /\ ArticleAt(x) \in Range(out.agg)
                  /\ ~StaleText(ArticleAt(x)) => ArticleAt(x) \in Range(out.fresh)
                  /\ (ArticleAt(x) \in Range(out.fresh) /\ out.limit >= Len(out.fresh))
                        => ArticleAt(x) \in Range(StripIds(out.ret))

\* C10 (amended): timestamps follow the chain published, updated, current
\* time; so a processed entry with no parseable timestamp is never dropped by
\* the recency window (hours > 0), and the 24-hour age check drops it only
\* when more than 24 hours pass between the resolution of its timestamp and
\* the clock read of the staleness filter; otherwise it is returned unless
\* its text mentions a stale year or the limit cuts it off.
C10_UndatedEntries ==
    out.op = "fetch" =>
        /\ FollowsChain
        /\ \A x \in ProcessedEntries :
              (Undated(EntryAt(x)) /\ out.hours > 0) =>
                  /\ ArticleAt(x) \in Range(out.agg)
                  /\ (out.now - out.stamps[x[1]] <= 24 /\ ~StaleText(ArticleAt(x)))
                        => ArticleAt(x) \in Range(out.fresh)
                  /\ (out.now - out.stamps[x[1]] > 24 /\ STRICT_24H_FILTER)
                        => ArticleAt(x) \notin Range(out.fresh)
                  /\ (ArticleAt(x) \in Range(out.fresh) /\ out.limit >= Len(out.fresh))
                        => ArticleAt(x) \in Range(StripIds(out.ret))

\* an entry whose published tuple does not convert and whose updated tuple is
\* invalid is stamped with the current time and returned
C10_Witness ==
    /\ out.op = "fetch" /\ out.hours > 0 /\ STRICT_24H_FILTER
    /\ \E x \in ProcessedEntries :
          /\ Undated(EntryAt(x))
          /\ EntryAt(x).published_parsed # <<>>
          /\ ArticleAt(x).published = out.stamps[x[1]]
          /\ ArticleAt(x) \in Range(StripIds(out.ret))

-----------------------------------------------------------------------------
(* C4 *)

\* the web with the entries of every raising source left out
WithoutRaisingSources ==
    [u \in Urls |-> IF web[u].raises = <<>> THEN web[u]
                    ELSE [web[u] EXCEPT !.entries = <<>>, !.raises = <<>>]]

\* C4: a source that raises at any point, also after some of its entries
\* were processed, contributes nothing: the returned list and the cache are
\* those computed with that source's entries left out.
C4_RaisingSourceContributesNothing ==
    out.op = "fetch" =>
        LET f == fetch_recent_news(STRICT_24H_FILTER, feeds, WithoutRaisingSources,
                                   <<>>, out.t0, out.delay, out.hours, out.limit)
        IN  out.ret = f.ret /\ articles_cache = f.cache

-----------------------------------------------------------------------------
(* C5 *)

\* C5: a NewsFetcher constructed with an explicitly empty source list fetches
\* no source, returns the empty list and leaves the cache empty; the default
\* list is used only when no list is given.
C5_EmptyFeedList ==
    (out.op = "fetch" /\ feedsArg # <<>>) =>
        /\ Len(out.stamps) = Len(feedsArg[1])
        /\ feedsArg[1] = <<>> => (out.ret = <<>> /\ DOMAIN articles_cache = {})

====
